---------------------------- MODULE Spec2Model ----------------------------
(***************************************************************************)
(* Event streaming consumer of frappe: the Event Producer doctype          *)
(* (events_streaming/doctype/event_producer/event_producer.py).            *)
(*                                                                         *)
(* The consumer site pulls the producer site's Update Log from a cursor    *)
(* (Event Producer.last_update), replays every change (Create, Update,     *)
(* Delete) on its own documents after fetching the documents the change    *)
(* links to, writes one Event sync Log entry per change and moves the      *)
(* cursor.                                                                 *)
(*                                                                         *)
(* Documents are records with the same fields for every doctype; a field a *)
(* doctype does not have holds None, which is what doc.get(fieldname)      *)
(* answers for it.  The subscribed doctype is Task (link fields project -> *)
(* Project and customer -> Customer); Project links to Customer and        *)
(* Customer links to Project.  None of the doctypes has a child table or a *)
(* dynamic link field, so check_doc_has_dependencies takes its link_fields *)
(* branch only.                                                            *)
(***************************************************************************)
EXTENDS Integers, Sequences, FiniteSets, TLC

\* ------------------------------------------------------------- bounds
\* Length of the producer's Update Log.
MaxLog == 3
\* Length of the Update Log where scheduled runs and jobs interleave.
MaxJobsLog == 2
\* Depth of nested check_doc_has_dependencies calls Python allows before it
\* raises RecursionError (the interpreter's recursion limit, scaled down).
MaxDepth == 4
\* Length of the Update Log where resync calls follow the pull runs.
MaxResyncLog == 2
\* Number of resync calls.
MaxResync == 1

\* ---------------------------------------------------------- vocabulary
None == ""
\* The Event Producer document: its name is the producer's url.
EventProducerName == "http://producer"
\* A second Event Producer document of the site; its own documents and
\* cursor are not part of the state.
OtherProducerName == "http://other"
Producers == {EventProducerName, OtherProducerName}
\* The two callers of pull_from_node: the scheduled pull_producer_data and
\* the background job new_event_notification enqueues.
Runs == {"sched", "job"}

LocalDoctype == "Task"
\* The doctype the producer holds when the configuration entry has a mapping.
MappedRemoteDoctype == "Remote Task"
MappingName == "Task Mapping"
\* A doctype of the producer that the consumer did not subscribe to.
OtherDoctype == "Note"

\* The link values a Task payload carries: <<project, customer>>.
Variants == {"plain", "flat", "nested", "two", "cyc"}

LinkValues(variant) ==
    CASE variant = "plain"  -> <<None, None>>
      [] variant = "flat"   -> <<"P3", None>>
      [] variant = "nested" -> <<"P1", None>>
      [] variant = "two"    -> <<"P3", "C1">>
      [] variant = "cyc"    -> <<"P2", None>>

\* A document.  rproject is the producer-side name of the project field
\* when a mapping is configured.
Doc(doctype, name, project, customer, rproject, title) ==
    [doctype |-> doctype, name |-> name, project |-> project,
     customer |-> customer, rproject |-> rproject, title |-> title,
     remote_docname |-> None, remote_site_name |-> None]

NoDoc == Doc(None, None, None, None, None, None)

\* The master documents of the producer site, as producer_site.get_doc
\* answers them.  P1 needs C1; P2 and C2 need each other; P3 needs nothing.
RemoteMasters ==
    { Doc("Project", "P1", None, "C1", None, "p"),
      Doc("Project", "P2", None, "C2", None, "p"),
      Doc("Project", "P3", None, None, None, "p"),
      Doc("Customer", "C1", None, None, None, "c"),
      Doc("Customer", "C2", "P2", None, None, "c") }

\* ------------------------------------------------------- the meta data
\* frappe.get_meta(doctype).get_link_fields(), in field order.
LinkFields(doctype) ==
    CASE doctype = "Task"     -> << [fieldname |-> "project",  options |-> "Project"],
                                    [fieldname |-> "customer", options |-> "Customer"] >>
      [] doctype = "Project"  -> << [fieldname |-> "customer", options |-> "Customer"] >>
      [] doctype = "Customer" -> << [fieldname |-> "project",  options |-> "Project"] >>
      [] OTHER                -> << >>

\* doc.get(fieldname)
Get(doc, fieldname) ==
    CASE fieldname = "project"  -> doc.project
      [] fieldname = "customer" -> doc.customer
      [] OTHER                  -> None

\* ------------------------------------------------- the local database
\* The consumer's documents are a sequence in insertion order.
IndexOf(store, doctype, name) ==
    IF \E i \in DOMAIN store : store[i].doctype = doctype /\ store[i].name = name
    THEN CHOOSE i \in DOMAIN store : store[i].doctype = doctype /\ store[i].name = name
    ELSE 0

\* frappe.db.exists(doctype, name) / frappe.db.get_value(doctype, name)
Exists(store, doctype, name) == IndexOf(store, doctype, name) # 0

\* check_dependency_fulfilled
check_dependency_fulfilled(store, linked_doctype, docname) ==
    Exists(store, linked_doctype, docname)

RemoveAt(store, i) ==
    [j \in 1..(Len(store) - 1) |-> IF j < i THEN store[j] ELSE store[j + 1]]

\* Document._validate_links: every non-empty link of the document names a
\* document that exists.
LinksValid(store, doc) ==
    \A k \in DOMAIN LinkFields(doc.doctype) :
        LET df == LinkFields(doc.doctype)[k]
        IN  Get(doc, df.fieldname) = None
            \/ Exists(store, df.options, Get(doc, df.fieldname))

\* Document.insert(set_name=name): raises on a duplicate name and on a link
\* to a missing document, otherwise appends the document.
Insert(store, doc, name) ==
    IF Exists(store, doc.doctype, name)
    THEN [ok |-> FALSE, local |-> store, error |-> "DuplicateEntryError"]
    ELSE IF ~LinksValid(store, doc)
    THEN [ok |-> FALSE, local |-> store, error |-> "LinkValidationError"]
    ELSE [ok |-> TRUE, local |-> Append(store, [doc EXCEPT !.name = name]),
          error |-> None]

\* The name the naming rule gives the n-th document inserted without set_name.
NewName(n) == "LOCAL-" \o ToString(n)

\* producer_site.get_doc(doctype, name)
RemoteHas(doctype, name) ==
    \E d \in RemoteMasters : d.doctype = doctype /\ d.name = name

RemoteGetDoc(doctype, name) ==
    CHOOSE d \in RemoteMasters : d.doctype = doctype /\ d.name = name


\* ------------------------------------------------ dependency resolver
RECURSIVE set_dependencies(_, _, _, _, _)
RECURSIVE check_doc_has_dependencies(_, _, _, _)

\* set_dependencies: for every link field, fetch and insert the linked
\* document when it is missing.  `doc` is the loop's variable of that name:
\* after a fetch it holds the fetched document, for the rest of the loop.
\* `up` says whether the producer site answers; `depth` is the number of
\* nested check_doc_has_dependencies calls still allowed.  The answer is
\* [ok |-> no exception left the call, local |-> the documents afterwards,
\*  error |-> the exception that left it].
set_dependencies(doc, link_fields, store, up, depth) ==
    IF link_fields = << >>
    THEN [ok |-> TRUE, local |-> store, error |-> None]
    ELSE
      LET df == Head(link_fields)
          docname == Get(doc, df.fieldname)
          linked_doctype == df.options
      IN  IF docname # None /\ ~check_dependency_fulfilled(store, linked_doctype, docname)
          THEN
            IF ~up \/ ~RemoteHas(linked_doctype, docname)
            THEN [ok |-> FALSE, local |-> store, error |-> "RequestError"]
            ELSE
              LET master_doc == RemoteGetDoc(linked_doctype, docname)
                  ins == Insert(store, master_doc, docname)
              IN  IF ins.ok
                  THEN set_dependencies(master_doc, Tail(link_fields), ins.local, up, depth)
                  ELSE
                    LET nested == check_doc_has_dependencies(master_doc, store, up, depth - 1)
                    IN  IF nested.ok
                        THEN set_dependencies(master_doc, Tail(link_fields),
                                             nested.local, up, depth)
                        ELSE nested
          ELSE set_dependencies(doc, Tail(link_fields), store, up, depth)

\* sync_link_dependencies
sync_link_dependencies(doc, link_fields, store, up, depth) ==
    set_dependencies(doc, link_fields, store, up, depth)

\* check_doc_has_dependencies as a slip would have it: a depth guard that
\* gives up silently.
check_doc_has_dependencies_guarded(doc, store, up, depth) ==
    IF depth = 0
    THEN [ok |-> TRUE, local |-> store, error |-> None]
    ELSE IF LinkFields(doc.doctype) # << >>
         THEN sync_link_dependencies(doc, LinkFields(doc.doctype), store, up, depth)
         ELSE [ok |-> TRUE, local |-> store, error |-> None]

\* check_doc_has_dependencies.  With no call left Python raises
\* RecursionError, which no handler on the way out catches (each caller is
\* inside its own except block).
check_doc_has_dependencies(doc, store, up, depth) ==
    IF depth = 0
    THEN [ok |-> FALSE, local |-> store, error |-> "RecursionError"]
    ELSE IF LinkFields(doc.doctype) # << >>
         THEN sync_link_dependencies(doc, LinkFields(doc.doctype), store, up, depth)
         ELSE [ok |-> TRUE, local |-> store, error |-> None]

\* ------------------------------------------------------- apply engine
\* set_custom_fields as a slip would have it: the document's own name is
\* stored as its remote docname.
set_custom_fields_own_name(store, doctype, name, remote_docname, remote_site_name) ==
    [i \in DOMAIN store |->
        IF store[i].doctype = doctype /\ store[i].name = name
        THEN [store[i] EXCEPT !.remote_docname = name,
                              !.remote_site_name = remote_site_name]
        ELSE store[i]]

\* set_custom_fields: stamp the document named `name`.
set_custom_fields(store, doctype, name, remote_docname, remote_site_name) ==
    [i \in DOMAIN store |->
        IF store[i].doctype = doctype /\ store[i].name = name
        THEN [store[i] EXCEPT !.remote_docname = remote_docname,
                              !.remote_site_name = remote_site_name]
        ELSE store[i]]

\* The documents get_local_doc may answer for an update, as indices into
\* the documents; {0} when there is none (DoesNotExistError).  Several
\* documents can carry the same remote_docname: the database answers one.
get_local_doc(store, update) ==
    LET found == IF ~update.use_same_name
                 THEN {i \in DOMAIN store : store[i].doctype = update.ref_doctype
                                           /\ store[i].remote_docname = update.docname}
                 ELSE {i \in DOMAIN store : store[i].doctype = update.ref_doctype
                                           /\ store[i].name = update.docname}
    IN  IF found = {} THEN {0} ELSE found

\* set_insert as a slip would have it: the document is written without
\* its links being checked, and its dependencies are fetched afterwards.
set_insert_before_dependencies(update, store, naming, up, event_producer) ==
    IF Exists(store, update.ref_doctype, update.docname)
    THEN [ok |-> TRUE, local |-> store, naming |-> naming, data |-> update.data,
          error |-> None]
    ELSE IF update.data.kind # "dict"
    THEN [ok |-> FALSE, local |-> store, naming |-> naming, data |-> update.data,
          error |-> "ImportError"]
    ELSE
      LET doc == update.data.doc
          name == IF update.use_same_name THEN update.docname ELSE NewName(naming)
          written == Append(store, [doc EXCEPT !.name = name])
          stamped == IF update.use_same_name THEN written
                     ELSE set_custom_fields(written, doc.doctype, name,
                                            update.docname, event_producer)
          deps == check_doc_has_dependencies(doc, stamped, up, MaxDepth)
      IN  [ok |-> deps.ok, local |-> deps.local,
           naming |-> IF update.use_same_name THEN naming ELSE naming + 1,
           data |-> update.data, error |-> deps.error]

\* set_insert.  The answer is [ok, local, naming, data].
set_insert(update, store, naming, up, event_producer) ==
    IF Exists(store, update.ref_doctype, update.docname)
    THEN [ok |-> TRUE, local |-> store, naming |-> naming, data |-> update.data,
          error |-> None]
    ELSE IF update.data.kind # "dict"
    THEN [ok |-> FALSE, local |-> store, naming |-> naming, data |-> update.data,
          error |-> "ImportError"]
    ELSE
      LET doc == update.data.doc
          deps == check_doc_has_dependencies(doc, store, up, MaxDepth)
      IN  IF ~deps.ok
          THEN [ok |-> FALSE, local |-> deps.local, naming |-> naming, data |-> update.data,
                error |-> deps.error]
          ELSE IF update.use_same_name
          THEN LET ins == Insert(deps.local, doc, update.docname)
               IN  [ok |-> ins.ok, local |-> ins.local, naming |-> naming,
                    data |-> update.data, error |-> ins.error]
          ELSE LET ins == Insert(deps.local, doc, NewName(naming))
               IN  IF ins.ok
                   THEN [ok |-> TRUE,
                         local |-> set_custom_fields(ins.local, doc.doctype, NewName(naming),
                                                   update.docname, event_producer),
                         naming |-> naming + 1, data |-> update.data, error |-> None]
                   ELSE [ok |-> FALSE, local |-> ins.local, naming |-> naming,
                         data |-> update.data, error |-> ins.error]

\* set_update on the document get_local_doc answered (`pick`, 0 for none).
\* update.data.pop('name') leaves the payload without a name.
set_update(update, store, naming, up, pick) ==
    IF pick = 0
    THEN [ok |-> TRUE, local |-> store, naming |-> naming, data |-> update.data,
          error |-> None]
    ELSE IF update.data.kind # "dict"
    THEN [ok |-> FALSE, local |-> store, naming |-> naming, data |-> update.data,
          error |-> "AttributeError"]
    ELSE IF update.data.doc.name = None
    THEN [ok |-> FALSE, local |-> store, naming |-> naming, data |-> update.data,
          error |-> "KeyError"]
    ELSE
      LET data == [update.data EXCEPT !.doc.name = None]
          local_doc == store[pick]
          deps == check_doc_has_dependencies(local_doc, store, up, MaxDepth)
      IN  IF ~deps.ok
          THEN [ok |-> FALSE, local |-> deps.local, naming |-> naming, data |-> data,
                error |-> deps.error]
          ELSE [ok |-> TRUE,
                local |-> [deps.local EXCEPT ![pick] =
                              [local_doc EXCEPT !.doctype = data.doc.doctype,
                                                !.project = data.doc.project,
                                                !.customer = data.doc.customer,
                                                !.title = data.doc.title]],
                naming |-> naming, data |-> data, error |-> None]

\* set_delete as a slip would have it: a change for a document that is not
\* there raises DoesNotExistError.
set_delete_missing_raises(update, store, naming, pick) ==
    IF pick = 0
    THEN [ok |-> FALSE, local |-> store, naming |-> naming, data |-> update.data,
          error |-> "DoesNotExistError"]
    ELSE [ok |-> TRUE, local |-> RemoveAt(store, pick), naming |-> naming,
          data |-> update.data, error |-> None]

\* set_delete on the document get_local_doc answered.
set_delete(update, store, naming, pick) ==
    IF pick = 0
    THEN [ok |-> TRUE, local |-> store, naming |-> naming, data |-> update.data,
          error |-> None]
    ELSE [ok |-> TRUE, local |-> RemoveAt(store, pick), naming |-> naming,
          data |-> update.data, error |-> None]

\* The try block of sync up to the log: one of the three handlers.
Apply(update, store, naming, up, pick, event_producer) ==
    CASE update.update_type = "Create" ->
            set_insert(update, store, naming, up, event_producer)
      [] update.update_type = "Update" -> set_update(update, store, naming, up, pick)
      [] update.update_type = "Delete" -> set_delete(update, store, naming, pick)
      [] OTHER -> [ok |-> TRUE, local |-> store, naming |-> naming, data |-> update.data,
                   error |-> None]

\* ------------------------------------------------------ Event sync Log
\* frappe.as_json: a dict becomes a JSON string, None becomes "null".
AsJson(data) ==
    IF data.kind = "none" THEN [data EXCEPT !.kind = "null"]
    ELSE [data EXCEPT !.kind = "str"]

\* log_event_sync: the new Event sync Log document.  For a document kept
\* under a name of its own the entry's docname is looked up by
\* remote_docname (None when there is none).
log_event_sync(update, store, event_producer, sync_status, error) ==
    [update_type |-> update.update_type,
     ref_doctype |-> update.ref_doctype,
     status |-> sync_status,
     event_producer |-> event_producer,
     producer_doc |-> update.docname,
     data |-> AsJson(update.data),
     use_same_name |-> update.use_same_name,
     mapping |-> update.mapping,
     docname |-> IF update.use_same_name
                 THEN update.docname
                 ELSE LET found == {i \in DOMAIN store :
                                       store[i].doctype = update.ref_doctype
                                       /\ store[i].remote_docname = update.docname}
                      IN  IF found = {} THEN None
                          ELSE store[CHOOSE i \in found : \A j \in found : i <= j].name,
     error |-> error]

\* sync as a slip would have it: the cursor moves only past an update that
\* was applied.
sync_cursor_on_success(update, db, up, pick, event_producer, in_retry) ==
    LET res == Apply(update, db.local, db.naming, up, pick, event_producer)
        logged == [update EXCEPT !.data = res.data]
    IN  IF in_retry
        THEN [local |-> res.local, naming |-> res.naming, sync_log |-> db.sync_log,
              last_update |-> db.last_update,
              returns |-> IF res.ok THEN "Synced" ELSE "Failed"]
        ELSE [local |-> res.local, naming |-> res.naming,
              sync_log |-> Append(db.sync_log,
                                  IF res.ok
                                  THEN log_event_sync(logged, res.local, event_producer,
                                                      "Synced", None)
                                  ELSE log_event_sync(logged, res.local, event_producer,
                                                      "Failed", res.error)),
              last_update |-> IF res.ok THEN update.name ELSE db.last_update,
              returns |-> None]

\* sync as a slip would have it: an exception of the handler ends the call
\* before anything is logged, in a pull as in a retry.
sync_failure_unlogged(update, db, up, pick, event_producer, in_retry) ==
    LET res == Apply(update, db.local, db.naming, up, pick, event_producer)
        logged == [update EXCEPT !.data = res.data]
    IN  IF in_retry \/ ~res.ok
        THEN [local |-> res.local, naming |-> res.naming, sync_log |-> db.sync_log,
              last_update |-> db.last_update,
              returns |-> IF res.ok THEN "Synced" ELSE "Failed"]
        ELSE [local |-> res.local, naming |-> res.naming,
              sync_log |-> Append(db.sync_log,
                                  log_event_sync(logged, res.local, event_producer,
                                                 "Synced", None)),
              last_update |-> update.name,
              returns |-> None]

\* sync as a slip would have it: the entry is written Synced before the
\* handler runs, whatever the handler then does.
sync_logged_synced(update, db, up, pick, event_producer, in_retry) ==
    LET res == Apply(update, db.local, db.naming, up, pick, event_producer)
        logged == [update EXCEPT !.data = res.data]
    IN  IF in_retry
        THEN [local |-> res.local, naming |-> res.naming, sync_log |-> db.sync_log,
              last_update |-> db.last_update,
              returns |-> IF res.ok THEN "Synced" ELSE "Failed"]
        ELSE [local |-> res.local, naming |-> res.naming,
              sync_log |-> Append(db.sync_log,
                                  log_event_sync(logged, res.local, event_producer,
                                                 "Synced", None)),
              last_update |-> update.name,
              returns |-> None]

\* sync as a slip would have it: a retry moves the cursor as a pull does.
sync_retry_moves_cursor(update, db, up, pick, event_producer, in_retry) ==
    LET res == Apply(update, db.local, db.naming, up, pick, event_producer)
        logged == [update EXCEPT !.data = res.data]
    IN  IF in_retry
        THEN [local |-> res.local, naming |-> res.naming, sync_log |-> db.sync_log,
              last_update |-> update.name,
              returns |-> IF res.ok THEN "Synced" ELSE "Failed"]
        ELSE [local |-> res.local, naming |-> res.naming,
              sync_log |-> Append(db.sync_log,
                                  IF res.ok
                                  THEN log_event_sync(logged, res.local, event_producer,
                                                    "Synced", None)
                                  ELSE log_event_sync(logged, res.local, event_producer,
                                                    "Failed", res.error)),
              last_update |-> update.name,
              returns |-> None]

\* sync(update, producer_site, event_producer, in_retry): the database
\* before (`db`: local, naming, sync_log, last_update) and after it, and
\* what it returns ("Synced" or "Failed" in a retry, None otherwise).
sync(update, db, up, pick, event_producer, in_retry) ==
    LET res == Apply(update, db.local, db.naming, up, pick, event_producer)
        logged == [update EXCEPT !.data = res.data]
    IN  IF in_retry
        THEN [local |-> res.local, naming |-> res.naming, sync_log |-> db.sync_log,
              last_update |-> db.last_update,
              returns |-> IF res.ok THEN "Synced" ELSE "Failed"]
        ELSE [local |-> res.local, naming |-> res.naming,
              sync_log |-> Append(db.sync_log,
                                  IF res.ok
                                  THEN log_event_sync(logged, res.local, event_producer,
                                                    "Synced", None)
                                  ELSE log_event_sync(logged, res.local, event_producer,
                                                    "Failed", res.error)),
              last_update |-> update.name,
              returns |-> None]

\* ------------------------------------------------------------- state
VARIABLES
    event_configuration, \* the Event Producer's one configuration entry
    remote_log,          \* the producer's Update Log, oldest first
    last_update,         \* Event Producer.last_update: the cursor (0: no record)
    local,               \* the consumer's documents, in insertion order
    naming,              \* the naming rule's counter
    sync_log,            \* the Event sync Log, oldest first
    attempts,            \* history: the updates handed to sync by pull runs
    pc,                  \* per caller of pull_from_node: "idle" or "sync"
    updates,             \* per caller: the updates still to process (their names;
                         \* an Update Log record never changes)
    raised,              \* per caller: the exception that left its last pull_from_node
    queued,              \* the pull_from_node jobs waiting in the queue: the
                         \* event_producer argument of each, oldest first
    retried              \* history: the resync calls, [entry, returns]

vars == <<event_configuration, remote_log, last_update, local, naming,
          sync_log, attempts, pc, updates, raised, queued, retried>>

db_vars == <<last_update, local, naming, sync_log>>

\* ------------------------------------------------------ the producer
\* The doctype the producer logs for the configuration entry.
SubscribedDoctype(entry) ==
    IF entry.has_mapping THEN MappedRemoteDoctype ELSE LocalDoctype

\* The document snapshot the producer logs, by the producer's field names.
Payload(ref_doctype, docname, variant, title) ==
    IF ref_doctype = MappedRemoteDoctype
    THEN Doc(ref_doctype, docname, None, LinkValues(variant)[2], LinkValues(variant)[1], title)
    ELSE Doc(ref_doctype, docname, LinkValues(variant)[1], LinkValues(variant)[2], None, title)

\* Update Log.data: a JSON string, or nothing for a Delete.  `mappable` is
\* FALSE for a snapshot the mapping's rules do not fit.
JsonData(doc, mappable) == [kind |-> "str", doc |-> doc, mappable |-> mappable]
NoData == [kind |-> "none", doc |-> NoDoc, mappable |-> TRUE]

\* Whether the producer holds the document after the changes logged so far.
\* T2 was created before the consumer subscribed.
ProducerHas(log, ref_doctype, docname) ==
    LET about == {i \in DOMAIN log : log[i].ref_doctype = ref_doctype
                                     /\ log[i].docname = docname}
    IN  IF about = {}
        THEN docname \in {"T2", "N1"}
        ELSE log[CHOOSE i \in about : \A j \in about : j <= i].update_type # "Delete"

\* The creation time of the next Update Log record: two records can be
\* created within one tick of the clock.
NextCreation(log) ==
    IF log = << >> THEN {1} ELSE {log[Len(log)].creation, log[Len(log)].creation + 1}

UpdateLogRecord(log, update_type, ref_doctype, docname, data, creation) ==
    [name |-> Len(log) + 1, update_type |-> update_type, ref_doctype |-> ref_doctype,
     docname |-> docname, data |-> data, creation |-> creation]

\* The snapshots the producer can log for a document: <<variant, mappable,
\* creation>>.  A snapshot the mapping does not fit is one without links.
Snapshots(log, entry, variants) ==
    {t \in variants \X BOOLEAN \X NextCreation(log) :
        t[2] \/ (entry.has_mapping /\ t[1] = "plain")}

\* The changes the producer can log next.
ProducerChanges(log, entry) ==
    LET dt == SubscribedDoctype(entry)
    IN  UNION { { UpdateLogRecord(log, "Create", dt, n,
                                  JsonData(Payload(dt, n, t[1], "v1"), t[2]), t[3])
                    : t \in Snapshots(log, entry, IF n = "T1" THEN Variants \ {"plain"} ELSE {"plain"}) }
                : n \in {n \in {"T1", "T2"} : ~ProducerHas(log, dt, n)} }
        \cup
        UNION { { UpdateLogRecord(log, "Update", dt, n,
                                  JsonData(Payload(dt, n, t[1], "v2"), t[2]), t[3])
                    : t \in Snapshots(log, entry,
                                      IF n = "T1" THEN {"plain", "nested"} ELSE {"plain"}) }
                : n \in {n \in {"T1", "T2"} : ProducerHas(log, dt, n)} }
        \cup
        UNION { { UpdateLogRecord(log, "Delete", dt, n, NoData, c) : c \in NextCreation(log) }
                : n \in {n \in {"T1", "T2"} : ProducerHas(log, dt, n)} }
        \cup
        { UpdateLogRecord(log, "Update", OtherDoctype, "N1",
                          JsonData(Doc(OtherDoctype, "N1", None, None, None, "v2"), TRUE), c)
            : c \in NextCreation(log) }

\* producer_site.get_value('Update Log', 'creation', {'name': last_update})
RemoteGetValue(log, name) ==
    IF name \in DOMAIN log THEN log[name].creation ELSE 0

Reverse(seq) == [i \in 1..Len(seq) |-> seq[Len(seq) + 1 - i]]

RECURSIVE FilterLog(_, _, _)
FilterLog(seq, doctypes, after) ==
    IF seq = << >> THEN << >>
    ELSE IF Head(seq).ref_doctype \in doctypes /\ Head(seq).creation > after
         THEN <<Head(seq)>> \o FilterLog(Tail(seq), doctypes, after)
         ELSE FilterLog(Tail(seq), doctypes, after)

\* producer_site.get_list('Update Log', filters, fields): the records that
\* pass the filters, newest first.
RemoteGetList(log, doctypes, after) == Reverse(FilterLog(log, doctypes, after))

\* ------------------------------------------------------ pull_from_node
\* get_config
get_config(entry) ==
    [doctypes |-> {SubscribedDoctype(entry)},
     mapping_config |-> IF entry.has_mapping THEN MappingName ELSE None,
     naming_config |-> entry.use_same_name]

\* get_updates as a slip would have it: the list is returned as the
\* producer answered it, newest first.
get_updates_unreversed(log, cursor, doctypes) ==
    RemoteGetList(log, doctypes, RemoteGetValue(log, cursor))

\* get_updates: the creation filter applies when the cursor's record is
\* found.  The answer is the list reversed.
get_updates(log, cursor, doctypes) ==
    LET last_update_timestamp == RemoteGetValue(log, cursor)
        docs == RemoteGetList(log, doctypes, last_update_timestamp)
    IN  Reverse(docs)

\* Document Type Mapping.get_mapped_doc: the snapshot under the local
\* doctype and field names, again as a JSON string.
get_mapped_doc(data) ==
    [data EXCEPT !.doc.doctype = LocalDoctype,
                 !.doc.project = IF data.doc.rproject # None
                                 THEN data.doc.rproject ELSE data.doc.project,
                 !.doc.rproject = None]

\* get_mapped_update: [ok |-> no exception, update |-> the update mapped].
get_mapped_update(update) ==
    IF update.update_type # "Delete" /\ (~update.data.mappable \/ update.data.kind # "str")
    THEN [ok |-> FALSE, update |-> update]
    ELSE [ok |-> TRUE,
          update |-> [update EXCEPT
                        !.data = IF update.update_type # "Delete"
                                 THEN get_mapped_doc(update.data) ELSE update.data,
                        !.ref_doctype = LocalDoctype]]

\* json.loads: a JSON string becomes a dict, "null" becomes None.
JsonLoads(data) ==
    IF data.kind = "null" THEN [data EXCEPT !.kind = "none"]
    ELSE [data EXCEPT !.kind = "dict"]

\* The body of pull_from_node's loop before the call of sync.
PrepareUpdate(d, entry) ==
    LET config == get_config(entry)
        update == [name |-> d.name, update_type |-> d.update_type,
                   ref_doctype |-> d.ref_doctype, docname |-> d.docname,
                   data |-> d.data, use_same_name |-> config.naming_config,
                   mapping |-> config.mapping_config]
        mapped == IF config.mapping_config # None
                  THEN get_mapped_update(update)
                  ELSE [ok |-> TRUE, update |-> update]
    IN  IF ~mapped.ok
        THEN mapped
        ELSE [ok |-> TRUE,
              update |-> IF mapped.update.update_type # "Delete"
                         THEN [mapped.update EXCEPT !.data = JsonLoads(mapped.update.data)]
                         ELSE mapped.update]

\* ------------------------------------------------------------- resync
\* resync up to the call of sync.  Its argument is an Event Sync Log
\* document: update.docname is the entry's docname and update.data the
\* entry's JSON string, which is mapped and decoded when the entry has a
\* mapping and left as it is otherwise.
ResyncPrepare(entry) ==
    LET update == [name |-> 0, update_type |-> entry.update_type,
                   ref_doctype |-> entry.ref_doctype, docname |-> entry.docname,
                   data |-> entry.data, use_same_name |-> entry.use_same_name,
                   mapping |-> entry.mapping]
        mapped == IF update.mapping # None
                  THEN get_mapped_update(update)
                  ELSE [ok |-> TRUE, update |-> update]
    IN  IF mapped.ok /\ update.mapping # None
        THEN [ok |-> TRUE,
              update |-> [mapped.update EXCEPT !.data = JsonLoads(mapped.update.data)]]
        ELSE mapped

\* resync(update): the database after it and what it returns; an exception
\* of the mapping leaves the call ("MappingError").
resync(entry, db, up, pick) ==
    LET prepared == ResyncPrepare(entry)
    IN  IF ~prepared.ok
        THEN [local |-> db.local, naming |-> db.naming, sync_log |-> db.sync_log,
              last_update |-> db.last_update, returns |-> "MappingError"]
        ELSE sync(prepared.update, db, up, pick, entry.event_producer, TRUE)

\* ------------------------------------------------------------ actions
Init ==
    /\ event_configuration \in [use_same_name : BOOLEAN, has_mapping : BOOLEAN]
    /\ remote_log = << >>
    /\ last_update = 0
    /\ local = << >>
    /\ naming = 1
    /\ sync_log = << >>
    /\ attempts = << >>
    /\ pc = [r \in Runs |-> "idle"]
    /\ updates = [r \in Runs |-> << >>]
    /\ raised = [r \in Runs |-> None]
    /\ queued = << >>
    /\ retried = << >>

\* A document of the producer is created, changed or deleted: the producer
\* appends the change to its Update Log, of at most `bound` records.
ProducerEvent(bound) ==
    /\ Len(remote_log) < bound
    /\ \E d \in ProducerChanges(remote_log, event_configuration) :
          remote_log' = Append(remote_log, d)
    /\ UNCHANGED <<event_configuration, last_update, local, naming, sync_log,
                   attempts, pc, updates, raised, queued, retried>>

\* pull_from_node as a slip would have it: a failed request is logged as a
\* Failed sync before the exception leaves.
pull_from_node_logging_failure(r, up) ==
    /\ pc[r] = "idle"
    /\ IF ~up
       THEN /\ raised' = [raised EXCEPT ![r] = "TransportError"]
            /\ updates' = [updates EXCEPT ![r] = << >>]
            /\ pc' = pc
            /\ sync_log' = Append(sync_log,
                  [update_type |-> None, ref_doctype |-> None, status |-> "Failed",
                   event_producer |-> EventProducerName, producer_doc |-> None,
                   data |-> AsJson(NoData), use_same_name |-> event_configuration.use_same_name,
                   mapping |-> None, docname |-> None, error |-> "traceback"])
       ELSE LET docs == get_updates(remote_log, last_update,
                                    get_config(event_configuration).doctypes)
            IN  /\ updates' = [updates EXCEPT ![r] = [i \in DOMAIN docs |-> docs[i].name]]
                /\ pc' = [pc EXCEPT ![r] = IF docs = << >> THEN "idle" ELSE "sync"]
                /\ raised' = [raised EXCEPT ![r] = None]
                /\ sync_log' = sync_log
    /\ UNCHANGED <<event_configuration, remote_log, last_update, local, naming, attempts,
                   retried>>

\* pull_from_node up to its loop: read the cursor and the configuration and
\* call get_updates.  `up` says whether the producer site answers: a request
\* it does not answer raises, and the exception leaves pull_from_node.
pull_from_node(r, up) ==
    /\ pc[r] = "idle"
    /\ IF ~up
       THEN /\ raised' = [raised EXCEPT ![r] = "TransportError"]
            /\ updates' = [updates EXCEPT ![r] = << >>]
            /\ pc' = pc
       ELSE LET docs == get_updates(remote_log, last_update,
                                    get_config(event_configuration).doctypes)
            IN  /\ updates' = [updates EXCEPT ![r] = [i \in DOMAIN docs |-> docs[i].name]]
                /\ pc' = [pc EXCEPT ![r] = IF docs = << >> THEN "idle" ELSE "sync"]
                /\ raised' = [raised EXCEPT ![r] = None]
    /\ UNCHANGED <<event_configuration, remote_log, last_update, local, naming,
                   sync_log, attempts, retried>>

\* One turn of pull_from_node's loop: the update is mapped, decoded and
\* handed to sync.  An exception of the mapping leaves pull_from_node.
pull_from_node_loop(r, up) ==
    /\ pc[r] = "sync"
    /\ LET prepared == PrepareUpdate(remote_log[Head(updates[r])], event_configuration)
       IN  IF ~prepared.ok
           THEN /\ pc' = [pc EXCEPT ![r] = "idle"]
                /\ raised' = [raised EXCEPT ![r] = "MappingError"]
                /\ UNCHANGED <<last_update, local, naming, sync_log, attempts, updates>>
           ELSE \E pick \in get_local_doc(local, prepared.update) :
                  LET after == sync(prepared.update,
                                    [local |-> local, naming |-> naming,
                                     sync_log |-> sync_log, last_update |-> last_update],
                                    up, pick, EventProducerName, FALSE)
                  IN  /\ local' = after.local
                      /\ naming' = after.naming
                      /\ sync_log' = after.sync_log
                      /\ last_update' = after.last_update
                      /\ attempts' = Append(attempts, [run |-> r,
                                                       name |-> prepared.update.name])
                      /\ updates' = [updates EXCEPT ![r] = Tail(updates[r])]
                      /\ pc' = [pc EXCEPT ![r] = IF Tail(updates[r]) = << >>
                                                 THEN "idle" ELSE "sync"]
                      /\ raised' = raised
    /\ UNCHANGED <<event_configuration, remote_log, queued, retried>>

\* The process running pull_from_node is terminated between two updates.
Kill(r) ==
    /\ pc[r] = "sync"
    /\ pc' = [pc EXCEPT ![r] = "idle"]
    /\ updates' = [updates EXCEPT ![r] = << >>]
    /\ UNCHANGED <<event_configuration, remote_log, last_update, local, naming,
                   sync_log, attempts, raised, queued, retried>>

\* pull_producer_data, the scheduled entry point: it calls pull_from_node
\* for the Event Producer, whatever the job queue holds.
pull_producer_data ==
    /\ \E up \in BOOLEAN : pull_from_node("sched", up)
    /\ UNCHANGED queued

\* background_jobs.get_jobs: the methods of the jobs waiting in the queue
\* (a job that a worker has taken is not among them).
get_jobs(queue) == IF queue # << >> THEN {"pull_from_node"} ELSE {}

\* The queue after new_event_notification(producer_url): pull_from_node is
\* enqueued for the producer unless get_jobs holds the method already.
NotificationQueue(queue, producer_url) ==
    IF "pull_from_node" \notin get_jobs(queue)
    THEN Append(queue, producer_url)
    ELSE queue

\* new_event_notification
new_event_notification(producer_url) ==
    /\ queued' = NotificationQueue(queued, producer_url)
    /\ UNCHANGED <<event_configuration, remote_log, last_update, local, naming,
                   sync_log, attempts, pc, updates, raised, retried>>

\* A worker takes the oldest job from the queue and runs pull_from_node for
\* its event_producer.
WorkerRunsJob ==
    /\ queued # << >>
    /\ queued' = Tail(queued)
    /\ IF Head(queued) = EventProducerName
       THEN \E up \in BOOLEAN : pull_from_node("job", up)
       ELSE UNCHANGED <<event_configuration, remote_log, last_update, local, naming,
                        sync_log, attempts, pc, updates, raised, retried>>

\* A user calls resync for an Event Sync Log entry, between two updates of
\* a run or between runs.
Resync ==
    /\ Len(retried) < MaxResync
    /\ \E i \in DOMAIN sync_log, up \in BOOLEAN :
          \E pick \in get_local_doc(local, ResyncPrepare(sync_log[i]).update) :
            \E after \in {resync(sync_log[i],
                                 [local |-> local, naming |-> naming,
                                  sync_log |-> sync_log, last_update |-> last_update],
                                 up, pick)} :
                /\ local' = after.local
                /\ naming' = after.naming
                /\ sync_log' = after.sync_log
                /\ last_update' = after.last_update
                /\ retried' = Append(retried, [entry |-> i, returns |-> after.returns])
    /\ UNCHANGED <<event_configuration, remote_log, attempts, pc, updates, raised, queued>>

\* ----------------------------------------------------- specifications
\* Pull runs of the scheduler, one after the other.  A run reads the Update
\* Log in get_updates only, so a change the producer logs while the run is
\* between two updates is taken once the run is over: the next get_updates
\* is the first to see it either way.
Next ==
    \/ pc["sched"] = "idle" /\ ProducerEvent(MaxLog)
    \/ pull_producer_data
    \/ \E up \in BOOLEAN : pull_from_node_loop("sched", up)
    \/ Kill("sched")

Spec == Init /\ [][Next]_vars

\* The scheduler's runs together with the jobs of notifications.
NextJobs ==
    \/ ProducerEvent(MaxJobsLog)
    \/ pull_producer_data
    \/ \E producer_url \in Producers : new_event_notification(producer_url)
    \/ WorkerRunsJob
    \/ \E r \in Runs, up \in BOOLEAN : pull_from_node_loop(r, up)
    \/ \E r \in Runs : Kill(r)

SpecJobs == Init /\ [][NextJobs]_vars

\* The scheduler's runs together with resync calls.
NextResync ==
    \/ pc["sched"] = "idle" /\ ProducerEvent(MaxResyncLog)
    \/ pull_producer_data
    \/ \E up \in BOOLEAN : pull_from_node_loop("sched", up)
    \/ Kill("sched")
    \/ Resync

SpecResync == Init /\ [][NextResync]_vars

\* -------------------------------------------------------------- claims
\* The update pull_from_node's loop hands to sync for Update Log record d.
Prepared(d) == PrepareUpdate(d, event_configuration).update

Mappable(d) == PrepareUpdate(d, event_configuration).ok

\* C1: for every change of the Update Log and the documents of any reachable
\* state, applying the change twice in a row leaves the documents as
\* applying it once does (whichever document get_local_doc answers).
C1_IdempotentApply ==
    \A i \in DOMAIN remote_log :
        Mappable(remote_log[i]) =>
            \A p1 \in get_local_doc(local, Prepared(remote_log[i])) :
                LET once == Apply(Prepared(remote_log[i]), local, naming, TRUE, p1,
                                  EventProducerName)
                IN  \A p2 \in get_local_doc(once.local, Prepared(remote_log[i])) :
                        Apply(Prepared(remote_log[i]), once.local, once.naming, TRUE, p2,
                              EventProducerName).local = once.local

\* The names of the updates handed to sync so far, in order.
Attempted == [i \in DOMAIN attempts |-> attempts[i].name]

StrictlyIncreasing(seq) == \A i, j \in DOMAIN seq : i < j => seq[i] < seq[j]

\* C2: the updates a run has handed to sync and those it still holds are in
\* the order of the Update Log, oldest first: every update is synced after
\* all updates the producer created before it.
C2_OrderPreservation ==
    LET seq == Attempted \o updates["sched"]
    IN  /\ StrictlyIncreasing(seq)
        /\ \A i, j \in DOMAIN seq :
              remote_log[seq[i]].creation < remote_log[seq[j]].creation => i < j

\* C2 happens: a run has synced an update and holds a later one.
C2_Witness ==
    /\ pc["sched"] = "sync"
    /\ attempts # << >>
    /\ remote_log[attempts[Len(attempts)].name].creation
          < remote_log[Head(updates["sched"])].creation

\* A step that only appended documents.
OnlyAppended == Len(local') > Len(local) /\ SubSeq(local', 1, Len(local)) = local

C4_CursorMonotonicity ==
    /\ last_update = IF attempts = << >> THEN 0 ELSE attempts[Len(attempts)].name
    /\ StrictlyIncreasing(Attempted)

\* C4 happens: the cursor stands on an update logged Failed, after an
\* earlier update.
C4_Witness ==
    /\ Len(attempts) >= 2
    /\ sync_log[Len(sync_log)].status = "Failed"
    /\ last_update = attempts[Len(attempts)].name
    /\ pc["sched"] = "idle"

\* C5: no two documents carry the same remote_docname.
C5_RemoteIdentityUnique ==
    \A i, j \in DOMAIN local :
        (/\ local[i].doctype = local[j].doctype
         /\ local[i].remote_docname # None
         /\ local[i].remote_docname = local[j].remote_docname) => i = j

\* The names documents have at the producer.
RemoteNames == {"T1", "T2", "N1", "P1", "P2", "P3", "C1", "C2"}

ApplyRaises ==
    LET update == Prepared(remote_log[Head(updates["sched"])])
    IN  \A up \in BOOLEAN, pick \in get_local_doc(local, update) :
            ~Apply(update, local, naming, up, pick, EventProducerName).ok

\* C7: a turn of the loop that hands an update to sync appends one Event
\* Sync Log entry for it, moves the cursor to it and goes on with the next
\* update of the batch; when the handler raises, the entry is Failed and
\* carries the error.
C7_ApplyFailureIsolation ==
    [][(pc["sched"] = "sync" /\ attempts' # attempts) =>
        LET d == remote_log[Head(updates["sched"])]
            raises == ApplyRaises
        IN  /\ Len(sync_log') = Len(sync_log) + 1
            /\ SubSeq(sync_log', 1, Len(sync_log)) = sync_log
            /\ sync_log'[Len(sync_log')].producer_doc = d.docname
            /\ sync_log'[Len(sync_log')].update_type = d.update_type
            /\ raises => /\ sync_log'[Len(sync_log')].status = "Failed"
                         /\ sync_log'[Len(sync_log')].error # None
            /\ last_update' = d.name
            /\ updates'["sched"] = Tail(updates["sched"])
            /\ pc'["sched"] = IF Tail(updates["sched"]) = << >> THEN "idle" ELSE "sync"
            /\ raised'["sched"] = None]_vars

\* C7 happens: an update was logged Failed, the cursor stands on it and the
\* run goes on with the rest of its batch.
C7_Witness ==
    /\ pc["sched"] = "sync"
    /\ attempts # << >>
    /\ sync_log[Len(sync_log)].status = "Failed"
    /\ last_update = attempts[Len(attempts)].name
    /\ Head(updates["sched"]) = last_update + 1

\* C8: a run that is over has processed every update of its batch: an
\* update the mapping fails on is logged Failed and the cursor moves past it.
C8_MappingFailureIsolation ==
    \A r \in Runs :
        pc[r] = "idle" =>
            /\ updates[r] = << >>
            /\ raised[r] # "MappingError"

\* C9: at most one pull_from_node run of the Event Producer is queued or
\* executing.
C9_SingleRunInFlight ==
    Cardinality({i \in DOMAIN queued : queued[i] = EventProducerName})
        + Cardinality({r \in Runs : pc[r] = "sync"}) <= 1

\* C10: a pull_from_node call that a failed request of get_updates ends
\* leaves the cursor, the Event Sync Log and the documents as they were, and
\* the run is over.
C10_TransportFailure ==
    [][raised'["sched"] = "TransportError" =>
          /\ UNCHANGED <<last_update, sync_log, local, naming>>
          /\ pc'["sched"] = "idle"
          /\ updates'["sched"] = << >>]_vars

\* C10 happens: get_updates failed in a run that followed synced updates.
C10_Witness ==
    /\ raised["sched"] = "TransportError"
    /\ last_update > 0
    /\ Len(remote_log) > last_update

\* C11: an Update or Delete handed to sync for which get_local_doc finds no
\* document leaves the documents as they are, is logged Synced without an
\* error, and the cursor moves to it.
C11_ToleratedNotFound ==
    [][(/\ pc["sched"] = "sync"
        /\ attempts' # attempts
        /\ remote_log[Head(updates["sched"])].update_type \in {"Update", "Delete"}
        /\ get_local_doc(local, Prepared(remote_log[Head(updates["sched"])])) = {0}) =>
          /\ local' = local
          /\ naming' = naming
          /\ Len(sync_log') = Len(sync_log) + 1
          /\ sync_log'[Len(sync_log')].status = "Synced"
          /\ sync_log'[Len(sync_log')].error = None
          /\ last_update' = Head(updates["sched"])]_vars

\* C11 happens: an Update and then a Delete of a document the consumer
\* never held were logged Synced, and the cursor stands on the Delete.
C11_Witness ==
    /\ local = << >>
    /\ Len(sync_log) = 2
    /\ sync_log[1].update_type = "Update" /\ sync_log[1].status = "Synced"
    /\ sync_log[2].update_type = "Delete" /\ sync_log[2].status = "Synced"
    /\ last_update = 2

\* C12: a resync call returns Synced or Failed and leaves the Event Sync Log
\* and the cursor as they were.
C12_ResyncFrame ==
    [][retried' # retried =>
          /\ retried'[Len(retried')].returns \in {"Synced", "Failed"}
          /\ sync_log' = sync_log
          /\ last_update' = last_update]_vars

\* C12 happens: the resync of a Failed entry returned Synced and inserted a
\* document, with the cursor on a later update than the entry's.
C12_Witness ==
    /\ retried # << >>
    /\ retried[1].returns = "Synced"
    /\ sync_log[retried[1].entry].status = "Failed"
    /\ \E i \in DOMAIN local : local[i].doctype = LocalDoctype
    /\ last_update > retried[1].entry

\* C13: for every Event Sync Log entry that is Failed and whose update would
\* now be applied without an exception, resync of the entry returns Synced
\* and leaves the documents that applying the update leaves.
C13_ResyncSamePath ==
    \A i \in DOMAIN sync_log :
        sync_log[i].status = "Failed" =>
            LET orig == Prepared(remote_log[attempts[i].name])
                db == [local |-> local, naming |-> naming, sync_log |-> sync_log,
                       last_update |-> last_update]
            IN  \A p1 \in get_local_doc(local, orig) :
                    LET first == Apply(orig, local, naming, TRUE, p1, EventProducerName)
                    IN  first.ok =>
                          \A p2 \in get_local_doc(local,
                                                  ResyncPrepare(sync_log[i]).update) :
                              LET again == resync(sync_log[i], db, TRUE, p2)
                              IN  /\ again.returns = "Synced"
                                  /\ again.local = first.local

\* The subscribed changes that follow the cursor's record in the Update Log.
AfterCursor ==
    SelectSeq(remote_log,
              LAMBDA d : /\ d.name > last_update
                         /\ d.ref_doctype \in get_config(event_configuration).doctypes)

\* C14: whenever a run is over or was stopped, what get_updates answers the
\* next run is the subscribed changes after the cursor's record, oldest
\* first: none skipped, none fetched again.
C14_CrashResume ==
    pc["sched"] = "idle" =>
        get_updates(remote_log, last_update,
                    get_config(event_configuration).doctypes) = AfterCursor

\* The documents the Creates and Updates of the Update Log carry, as sync
\* is handed them.
LoggedDocs ==
    {Prepared(remote_log[i]).data.doc :
        i \in {j \in DOMAIN remote_log : /\ remote_log[j].update_type # "Delete"
                                         /\ Mappable(remote_log[j])}}

\* The link fields of a document that hold a value.
LinksSet(doc) ==
    {k \in DOMAIN LinkFields(doc.doctype) :
        Get(doc, LinkFields(doc.doctype)[k].fieldname) # None}

\* C15: for a logged document with one link, when the dependency resolution
\* returns (the producer answering), the linked document exists and so does
\* every document the linked document links to.
C15_NestedRetry ==
    \A doc \in LoggedDocs :
        Cardinality(LinksSet(doc)) = 1 =>
            LET r == check_doc_has_dependencies(doc, local, TRUE, MaxDepth)
            IN  r.ok =>
                  \A k \in LinksSet(doc) :
                      LET df == LinkFields(doc.doctype)[k]
                          v == Get(doc, df.fieldname)
                      IN  /\ Exists(r.local, df.options, v)
                          /\ LinksValid(r.local, RemoteGetDoc(df.options, v))

\* C16: for a logged document with several links, when the dependency
\* resolution returns (the producer answering), every linked document that
\* has no links of its own exists.
C16_AllDirectLinks ==
    \A doc \in LoggedDocs :
        Cardinality(LinksSet(doc)) > 1 =>
            LET r == check_doc_has_dependencies(doc, local, TRUE, MaxDepth)
            IN  r.ok =>
                  \A k \in LinksSet(doc) :
                      LET df == LinkFields(doc.doctype)[k]
                          v == Get(doc, df.fieldname)
                      IN  LinksSet(RemoteGetDoc(df.options, v)) = {} =>
                              Exists(r.local, df.options, v)

\* C17: after a step that logs a Create or an Update Synced, every link of
\* the documents the change is about names a document that exists.
C17_NoDanglingLinks ==
    [][(/\ pc["sched"] = "sync"
        /\ attempts' # attempts
        /\ remote_log[Head(updates["sched"])].update_type \in {"Create", "Update"}
        /\ sync_log'[Len(sync_log')].status = "Synced") =>
          LET update == Prepared(remote_log[Head(updates["sched"])])
          IN  \A i \in get_local_doc(local', update) \ {0} :
                  LinksValid(local', local'[i])]_vars

\* C18: a pull step that hands an update to sync appends exactly one Event
\* Sync Log entry, Synced when the handler raised nothing and Failed when it
\* raised; every step, of a pull or of a resync, leaves the entries that
\* exist as they are, and a resync adds none.
C18_AuditLogShape ==
    [][/\ Len(sync_log') >= Len(sync_log)
       /\ SubSeq(sync_log', 1, Len(sync_log)) = sync_log
       /\ retried' # retried => sync_log' = sync_log
       /\ (pc["sched"] = "sync" /\ attempts' # attempts) =>
             LET update == Prepared(remote_log[Head(updates["sched"])])
             IN  /\ Len(sync_log') = Len(sync_log) + 1
                 /\ \E up \in BOOLEAN, pick \in get_local_doc(local, update) :
                       LET res == Apply(update, local, naming, up, pick,
                                        EventProducerName)
                       IN  /\ local' = res.local
                           /\ naming' = res.naming
                           /\ sync_log'[Len(sync_log')].status =
                                 IF res.ok THEN "Synced" ELSE "Failed"]_vars

\* C18 happens: the log holds a Synced and a Failed entry of pull runs, and
\* a resync call was made.
C18_Witness ==
    /\ Len(sync_log) = 2
    /\ {sync_log[1].status, sync_log[2].status} = {"Synced", "Failed"}
    /\ Len(attempts) = 2
    /\ retried # << >>

\* The producer's documents a producer's document links to.
MasterLinks(m) ==
    {RemoteGetDoc(LinkFields(m.doctype)[k].options,
                  Get(m, LinkFields(m.doctype)[k].fieldname)) : k \in LinksSet(m)}

RECURSIVE Reach(_, _)
\* The documents reached from those of S over at most n links.
Reach(S, n) ==
    IF n = 0 THEN S ELSE Reach(S \cup UNION {MasterLinks(m) : m \in S}, n - 1)

\* The document is missing and links, over the producer's documents, back
\* to itself.
OnMissingCycle(m, store) ==
    /\ ~Exists(store, m.doctype, m.name)
    /\ m \in Reach(MasterLinks(m), Cardinality(RemoteMasters))

C20_PerSourceTriggers ==
    \A producer_url \in Producers :
        \E i \in DOMAIN NotificationQueue(queued, producer_url) :
            NotificationQueue(queued, producer_url)[i] = producer_url

=============================================================================
